---- MODULE Spec2Model ----
(***************************************************************************)
(* Model of the traefik-block-regex-urls middleware.                       *)
(*                                                                         *)
(* Strings are sequences of one-character strings.  A forwarding header    *)
(* value is a sequence of lexemes: the separator ",", a blank " ", or a    *)
(* word (the text of an IPv4 or IPv6 literal, or a word that is no         *)
(* address).  Addresses are byte sequences, as in Go's net.IP.             *)
(***************************************************************************)
EXTENDS Integers, Sequences, FiniteSets, TLC

VARIABLES phase, variant, config, handler, newError, request, written, nextCalls,
          remembered, inflight, input, output

vars ==
    <<phase, variant, config, handler, newError, request, written, nextCalls,
      remembered, inflight, input, output>>

\* the host's view of one handler and the request it is handling
hostVars == <<phase, variant, config, handler, newError, request, written, nextCalls>>

\* an earlier request and its decision; the requests handled at the same
\* time; the argument and the result of a function called on its own
sideVars == <<remembered, inflight, input, output>>

(***************************************************************************)
(* Bounds of the model.                                                    *)
(***************************************************************************)
\* longest configured regex list
MaxRegex == 2
\* longest configured list of literal match strings
MaxStrings == 1
\* most lexemes in X-Forwarded-For and X-Real-IP together
MaxHeader == 2
MaxCollect == 4

(***************************************************************************)
(* Text used by the configurations and the requests.                       *)
(***************************************************************************)
HostLocalhost == <<"l", "o", "c", "a", "l", "h", "o", "s", "t">>

UriWpLogin == <<"/", "w", "p", "-", "l", "o", "g", "i", "n">>

UriIndexHtml == <<"/", "i", "n", "d", "e", "x", ".", "h", "t", "m", "l">>

\* "^/wp(.*)", the rule of the tests
PatWpPath == <<"^", "/", "w", "p", "(", ".", "*", ")">>

\* "wp", unanchored
PatWp == <<"w", "p">>

\* "^localhost/(.*)", anchored at the host as in the README's samples
PatHost == <<"^", "l", "o", "c", "a", "l", "h", "o", "s", "t", "/", "(", ".", "*", ")">>

\* "(wp", an unbalanced parenthesis
PatBroken == <<"(", "w", "p">>

ValidPatterns == {PatWpPath, PatWp, PatHost}

Patterns == ValidPatterns \cup {PatBroken}

\* literal strings of the variants that have them
LiteralStrings == {<<"w", "p">>, HostLocalhost \o UriWpLogin}

Hosts == {HostLocalhost}

Uris == {UriWpLogin, UriIndexHtml}

StatusCodes == {403, 404}

\* the sequences over S of length at most n
SeqUpTo(S, n) == UNION {[1..k -> S] : k \in 0..n}

(***************************************************************************)
(* regexp.Compile and Regexp.MatchString, for patterns made of literal     *)
(* characters, ".", ".*", a leading "^", a trailing "$" and groups.        *)
(***************************************************************************)
RECURSIVE ParenDepth(_, _, _)
\* the nesting depth after reading p[i..], or -1 once a ")" closes nothing
ParenDepth(p, i, depth) ==
    IF i > Len(p) THEN depth
    ELSE IF p[i] = "(" THEN ParenDepth(p, i + 1, depth + 1)
    ELSE IF p[i] = ")" THEN (IF depth = 0 THEN -1 ELSE ParenDepth(p, i + 1, depth - 1))
    ELSE ParenDepth(p, i + 1, depth)

RECURSIVE Tokens(_, _)
\* the pattern's atoms from position i on; groups only capture, so their
\* parentheses leave no atom
Tokens(p, i) ==
    IF i > Len(p) THEN <<>>
    ELSE IF p[i] \in {"(", ")"} THEN Tokens(p, i + 1)
    ELSE IF p[i] = "." /\ i < Len(p) /\ p[i + 1] = "*"
         THEN <<[kind |-> "any"]>> \o Tokens(p, i + 2)
    ELSE IF p[i] = "." THEN <<[kind |-> "one"]>> \o Tokens(p, i + 1)
    ELSE IF p[i] = "^" THEN <<[kind |-> "bol"]>> \o Tokens(p, i + 1)
    ELSE IF p[i] = "$" THEN <<[kind |-> "eol"]>> \o Tokens(p, i + 1)
    ELSE <<[kind |-> "lit", c |-> p[i]]>> \o Tokens(p, i + 1)

\* regexp.Compile: an error for unbalanced parentheses, else the program
Compile(p) ==
    IF ParenDepth(p, 1, 0) # 0
    THEN [ok |-> FALSE, prog |-> <<>>]
    ELSE [ok |-> TRUE, prog |-> Tokens(p, 1)]

RECURSIVE MatchHere(_, _, _, _)
\* does prog[k..] match s starting at position i
MatchHere(prog, k, s, i) ==
    IF k > Len(prog) THEN TRUE
    ELSE LET t == prog[k] IN
         CASE t.kind = "bol" -> i = 1 /\ MatchHere(prog, k + 1, s, i)
           [] t.kind = "eol" -> i = Len(s) + 1 /\ MatchHere(prog, k + 1, s, i)
           [] t.kind = "any" -> \E j \in i..(Len(s) + 1) : MatchHere(prog, k + 1, s, j)
           [] t.kind = "one" -> i <= Len(s) /\ MatchHere(prog, k + 1, s, i + 1)
           [] OTHER -> i <= Len(s) /\ s[i] = t.c /\ MatchHere(prog, k + 1, s, i + 1)

\* Regexp.MatchString: the pattern matches somewhere in s
MatchString(prog, s) == \E i \in 1..(Len(s) + 1) : MatchHere(prog, 1, s, i)

\* strings.Contains
Contains(s, sub) ==
    \E i \in 1..(Len(s) + 1) :
        /\ i + Len(sub) - 1 <= Len(s)
        /\ \A j \in 1..Len(sub) : s[i + j - 1] = sub[j]

\* slices.Contains
SlicesContains(list, s) == \E i \in 1..Len(list) : list[i] = s

(***************************************************************************)
(* Header text and addresses.                                              *)
(***************************************************************************)
Comma == [kind |-> "comma", parts |-> <<>>]

Blank == [kind |-> "blank", parts |-> <<>>]

\* the text of a dotted quad
V4Text(a, b, c, d) == [kind |-> "v4", parts |-> <<a, b, c, d>>]

\* the text of an IPv6 literal, by its eight groups
V6Text(groups) == [kind |-> "v6", parts |-> groups]

\* a word that is no address
WordUnknown == [kind |-> "word", parts |-> <<>>]

\* 192.168.1.1, the private address of the tests
TextPrivate == V4Text(192, 168, 1, 1)

\* 2.56.20.0, the public address of the tests
TextPublic == V4Text(2, 56, 20, 0)

HeaderLexemes == {Comma, TextPrivate, TextPublic, WordUnknown}

RECURSIVE Repeat(_, _)
Repeat(x, n) == IF n = 0 THEN <<>> ELSE <<x>> \o Repeat(x, n - 1)

\* the 16-byte form net.ParseIP gives a dotted quad
V4InV6(q) == Repeat(0, 10) \o <<255, 255>> \o q

RECURSIVE GroupBytes(_, _)
GroupBytes(groups, i) ==
    IF i > Len(groups) THEN <<>>
    ELSE <<groups[i] \div 256, groups[i] % 256>> \o GroupBytes(groups, i + 1)

\* net.ParseIP on one token: the bytes, or nil (the empty sequence)
NetParseIP(token) ==
    IF Len(token) # 1 THEN <<>>
    ELSE LET w == token[1] IN
         IF /\ w.kind = "v4"
            /\ Len(w.parts) = 4
            /\ \A i \in 1..4 : w.parts[i] \in 0..255
         THEN V4InV6(w.parts)
         ELSE IF /\ w.kind = "v6"
                 /\ Len(w.parts) = 8
                 /\ \A i \in 1..8 : w.parts[i] \in 0..65535
         THEN GroupBytes(w.parts, 1)
         ELSE <<>>

\* ParseIP: the address and no error, or nil and an error
ParseIP(address) ==
    LET ipAddress == NetParseIP(address) IN
    IF ipAddress = <<>>
    THEN [ip |-> <<>>, err |-> TRUE]
    ELSE [ip |-> ipAddress, err |-> FALSE]

\* net.IP.To4: the 4-byte form of an IPv4 address, else nil
To4(ip) ==
    IF Len(ip) = 4 THEN ip
    ELSE IF /\ Len(ip) = 16
            /\ \A i \in 1..10 : ip[i] = 0
            /\ ip[11] = 255
            /\ ip[12] = 255
    THEN SubSeq(ip, 13, 16)
    ELSE <<>>

\* x & m for a mask byte m with k leading one bits
AndMask(x, k) == x - (x % (2 ^ (8 - k)))

\* the leading one bits of byte i (from 1) of a mask of `ones` bits
MaskBits(ones, i) ==
    IF ones >= 8 * i THEN 8
    ELSE IF ones <= 8 * (i - 1) THEN 0
    ELSE ones - 8 * (i - 1)

IsLoopback(ip) ==
    IF To4(ip) # <<>> THEN To4(ip)[1] = 127
    ELSE ip = Repeat(0, 15) \o <<1>>

IsLinkLocalUnicast(ip) ==
    IF To4(ip) # <<>> THEN To4(ip)[1] = 169 /\ To4(ip)[2] = 254
    ELSE Len(ip) = 16 /\ ip[1] = 254 /\ AndMask(ip[2], 2) = 128

IsLinkLocalMulticast(ip) ==
    IF To4(ip) # <<>> THEN To4(ip)[1] = 224 /\ To4(ip)[2] = 0 /\ To4(ip)[3] = 0
    ELSE Len(ip) = 16 /\ ip[1] = 255 /\ ip[2] % 16 = 2

\* net.ParseCIDR: the network number, masked, and the prefix length
ParseCIDR(text, ones) ==
    LET full == NetParseIP(<<text>>)
        ip == IF To4(full) # <<>> THEN To4(full) ELSE full
    IN [IP |-> [i \in 1..Len(ip) |-> AndMask(ip[i], MaskBits(ones, i))],
        ones |-> ones]

\* PrivateCIDRs with 172.16.0.0/16 for 172.16.0.0/12
PrivateCIDRsNarrow ==
    << <<V4Text(127, 0, 0, 0), 8>>,
       <<V4Text(10, 0, 0, 0), 8>>,
       <<V4Text(172, 16, 0, 0), 16>>,
       <<V4Text(192, 168, 0, 0), 16>>,
       <<V4Text(169, 254, 0, 0), 16>>,
       <<V6Text(<<0, 0, 0, 0, 0, 0, 0, 1>>), 128>>,
       <<V6Text(<<65152, 0, 0, 0, 0, 0, 0, 0>>), 10>>,
       <<V6Text(<<64512, 0, 0, 0, 0, 0, 0, 0>>), 7>> >>

\* the hardcoded CIDR list, in the order of the source
PrivateCIDRs ==
    << <<V4Text(127, 0, 0, 0), 8>>,
       <<V4Text(10, 0, 0, 0), 8>>,
       <<V4Text(172, 16, 0, 0), 12>>,
       <<V4Text(192, 168, 0, 0), 16>>,
       <<V4Text(169, 254, 0, 0), 16>>,
       <<V6Text(<<0, 0, 0, 0, 0, 0, 0, 1>>), 128>>,
       <<V6Text(<<65152, 0, 0, 0, 0, 0, 0, 0>>), 10>>,
       <<V6Text(<<64512, 0, 0, 0, 0, 0, 0, 0>>), 7>> >>

InitializePrivateIPBlocks ==
    [i \in 1..Len(PrivateCIDRs) |-> ParseCIDR(PrivateCIDRs[i][1], PrivateCIDRs[i][2])]

\* net.IPNet.Contains
NetContains(block, ip) ==
    LET x == IF To4(ip) # <<>> THEN To4(ip) ELSE ip IN
    /\ Len(x) = Len(block.IP)
    /\ \A i \in 1..Len(x) :
           AndMask(block.IP[i], MaskBits(block.ones, i))
               = AndMask(x[i], MaskBits(block.ones, i))

IsIpInList(ip, list) == \E i \in 1..Len(list) : NetContains(list[i], ip)

\* IsPrivateIP without the CIDR list
IsPrivateIPNoList(ip, privateIPBlocks) ==
    \/ IsLoopback(ip)
    \/ IsLinkLocalUnicast(ip)
    \/ IsLinkLocalMulticast(ip)

IsPrivateIP(ip, privateIPBlocks) ==
    \/ IsLoopback(ip)
    \/ IsLinkLocalUnicast(ip)
    \/ IsLinkLocalMulticast(ip)
    \/ IsIpInList(ip, privateIPBlocks)

(***************************************************************************)
(* The handler: construction.                                              *)
(***************************************************************************)
\* the nil handler New returns beside an error
NoHandler == [nil |-> TRUE]

NoRequest == [nil |-> TRUE]

\* no result yet of a function called on its own
NoResult == [done |-> FALSE]

RECURSIVE CompileLoopSkip(_, _, _)
\* CompileLoop that skips a pattern that does not compile
CompileLoopSkip(regex, index, regexps) ==
    IF index > Len(regex) THEN [ok |-> TRUE, regexps |-> regexps]
    ELSE LET compiled == Compile(regex[index]) IN
         IF ~compiled.ok THEN CompileLoopSkip(regex, index + 1, regexps)
         ELSE CompileLoopSkip(regex, index + 1, Append(regexps, compiled.prog))

RECURSIVE CompileLoop(_, _, _)
\* the loop of New over config.Regex: stops at the first compile error
CompileLoop(regex, index, regexps) ==
    IF index > Len(regex) THEN [ok |-> TRUE, regexps |-> regexps]
    ELSE LET compiled == Compile(regex[index]) IN
         IF ~compiled.ok THEN [ok |-> FALSE, regexps |-> <<>>]
         ELSE CompileLoop(regex, index + 1, Append(regexps, compiled.prog))

\* CreateConfig, with the fields the caller then sets
CreateConfig == [AllowLocalRequests |-> TRUE, Regex |-> <<>>, StatusCode |-> 403]

\* New of the variant with the private-address exemption
NewIP(cfg) ==
    IF Len(cfg.Regex) = 0 THEN [handler |-> NoHandler, err |-> TRUE]
    ELSE LET r == CompileLoop(cfg.Regex, 1, <<>>) IN
         IF ~r.ok THEN [handler |-> NoHandler, err |-> TRUE]
         ELSE [handler |-> [allowLocalRequests |-> cfg.AllowLocalRequests,
                            privateIPRanges |-> InitializePrivateIPBlocks,
                            regexps |-> r.regexps,
                            statusCode |-> cfg.StatusCode],
               err |-> FALSE]

\* NewSubstring with the check for an empty regex list
NewSubstringRejectEmpty(cfg) ==
    IF Len(cfg.Regex) = 0 THEN [handler |-> NoHandler, err |-> TRUE]
    ELSE LET r == CompileLoop(cfg.Regex, 1, <<>>) IN
         IF ~r.ok THEN [handler |-> NoHandler, err |-> TRUE]
         ELSE [handler |-> [regexps |-> r.regexps,
                            matchStrings |-> cfg.MatchStrings,
                            statusCode |-> cfg.StatusCode],
               err |-> FALSE]

\* New of the variant with literal strings tested by containment
NewSubstring(cfg) ==
    LET r == CompileLoop(cfg.Regex, 1, <<>>) IN
    IF ~r.ok THEN [handler |-> NoHandler, err |-> TRUE]
    ELSE [handler |-> [regexps |-> r.regexps,
                       matchStrings |-> cfg.MatchStrings,
                       statusCode |-> cfg.StatusCode],
          err |-> FALSE]

\* New of the variant with literal strings tested by equality
NewExact(cfg) ==
    LET r == CompileLoop(cfg.Regex, 1, <<>>) IN
    IF ~r.ok THEN [handler |-> NoHandler, err |-> TRUE]
    ELSE [handler |-> [regexps |-> r.regexps,
                       exactMatch |-> cfg.ExactMatch,
                       statusCode |-> cfg.StatusCode],
          err |-> FALSE]

(***************************************************************************)
(* The handler: one request.                                               *)
(***************************************************************************)
\* FullUrl without the host
FullUrlPathOnly(req) == req.RequestURI

\* request.Host + request.URL.RequestURI()
FullUrl(req) == req.Host \o req.RequestURI

RECURSIVE FieldsFunc(_, _, _)
\* strings.FieldsFunc(value, splitFn): the non-empty runs between commas
FieldsFunc(value, i, field) ==
    IF i > Len(value) THEN (IF field = <<>> THEN <<>> ELSE <<field>>)
    ELSE IF value[i] = Comma
         THEN (IF field = <<>> THEN <<>> ELSE <<field>>) \o FieldsFunc(value, i + 1, <<>>)
    ELSE FieldsFunc(value, i + 1, Append(field, value[i]))

RECURSIVE ParseLoop(_, _, _)
\* one of the two loops of CollectRemoteIP: the list so far and an error
\* at the first value that does not parse
ParseLoop(values, k, ipList) ==
    IF k > Len(values) THEN [ipList |-> ipList, err |-> FALSE]
    ELSE LET r == ParseIP(values[k]) IN
         IF r.err THEN [ipList |-> ipList, err |-> TRUE]
         ELSE ParseLoop(values, k + 1, Append(ipList, r.ip))

\* CollectRemoteIP that goes on to X-Real-IP after a failure in
\* X-Forwarded-For
CollectRemoteIPReadsOn(req) ==
    LET xff == ParseLoop(FieldsFunc(req.XForwardedFor, 1, <<>>), 1, <<>>)
        real == ParseLoop(FieldsFunc(req.XRealIP, 1, <<>>), 1, xff.ipList)
    IN [ipList |-> real.ipList, err |-> xff.err \/ real.err]

CollectRemoteIP(req) ==
    LET xff == ParseLoop(FieldsFunc(req.XForwardedFor, 1, <<>>), 1, <<>>) IN
    IF xff.err THEN xff
    ELSE ParseLoop(FieldsFunc(req.XRealIP, 1, <<>>), 1, xff.ipList)

\* AllPrivateLoop that needs an address to call the request private
AllPrivateLoopNeedsAddress(ipAddresses, k, blocks, isPrivateIp) ==
    /\ Len(ipAddresses) > 0
    /\ \A j \in k..Len(ipAddresses) : IsPrivateIP(ipAddresses[j], blocks)

RECURSIVE AllPrivateLoop(_, _, _, _)
\* the loop over ipAddresses: isPrivateIp starts true, stops at the first
\* address that is not private
AllPrivateLoop(ipAddresses, k, blocks, isPrivateIp) ==
    IF k > Len(ipAddresses) THEN isPrivateIp
    ELSE LET p == IsPrivateIP(ipAddresses[k], blocks) /\ isPrivateIp IN
         IF ~p THEN FALSE
         ELSE AllPrivateLoop(ipAddresses, k + 1, blocks, p)

\* responseWriter.WriteHeader(code)
WriteHeader(out, code) == [out EXCEPT !.written = Append(@, code)]

\* blockUrls.next.ServeHTTP(responseWriter, request)
CallNext(out, req) == [out EXCEPT !.nextCalls = Append(@, req)]

NoOutput == [written |-> <<>>, nextCalls |-> <<>>]

RECURSIVE ServeLoopIPNoReturn(_, _, _, _)
\* ServeLoopIP without the return after WriteHeader
ServeLoopIPNoReturn(h, req, i, out) ==
    IF i > Len(h.regexps) THEN CallNext(out, req)
    ELSE IF MatchString(h.regexps[i], FullUrl(req))
    THEN LET collected == CollectRemoteIP(req) IN
         IF ~h.allowLocalRequests
         THEN ServeLoopIPNoReturn(h, req, i + 1, WriteHeader(out, h.statusCode))
         ELSE IF ~AllPrivateLoop(collected.ipList, 1, h.privateIPRanges, TRUE)
         THEN ServeLoopIPNoReturn(h, req, i + 1, WriteHeader(out, h.statusCode))
         ELSE ServeLoopIPNoReturn(h, req, i + 1, out)
    ELSE ServeLoopIPNoReturn(h, req, i + 1, out)

RECURSIVE ServeLoopIPIgnoreFlag(_, _, _, _)
\* ServeLoopIP without the test of allowLocalRequests
ServeLoopIPIgnoreFlag(h, req, i, out) ==
    IF i > Len(h.regexps) THEN CallNext(out, req)
    ELSE IF MatchString(h.regexps[i], FullUrl(req))
    THEN LET collected == CollectRemoteIP(req) IN
         IF ~AllPrivateLoop(collected.ipList, 1, h.privateIPRanges, TRUE)
         THEN WriteHeader(out, h.statusCode)
         ELSE ServeLoopIPIgnoreFlag(h, req, i + 1, out)
    ELSE ServeLoopIPIgnoreFlag(h, req, i + 1, out)

RECURSIVE ServeLoopIPStopsAtMiss(_, _, _, _)
\* ServeLoopIP that leaves the loop at the first regex that does not match
ServeLoopIPStopsAtMiss(h, req, i, out) ==
    IF i > Len(h.regexps) THEN CallNext(out, req)
    ELSE IF MatchString(h.regexps[i], FullUrl(req))
    THEN LET collected == CollectRemoteIP(req) IN
         IF ~h.allowLocalRequests THEN WriteHeader(out, h.statusCode)
         ELSE IF ~AllPrivateLoop(collected.ipList, 1, h.privateIPRanges, TRUE)
         THEN WriteHeader(out, h.statusCode)
         ELSE ServeLoopIPStopsAtMiss(h, req, i + 1, out)
    ELSE CallNext(out, req)

RECURSIVE ServeLoopIP(_, _, _, _)
\* ServeHTTP of the variant with the exemption, from regex index i on
ServeLoopIP(h, req, i, out) ==
    IF i > Len(h.regexps) THEN CallNext(out, req)
    ELSE IF MatchString(h.regexps[i], FullUrl(req))
    THEN LET collected == CollectRemoteIP(req) IN
         IF ~h.allowLocalRequests THEN WriteHeader(out, h.statusCode)
         ELSE IF ~AllPrivateLoop(collected.ipList, 1, h.privateIPRanges, TRUE)
         THEN WriteHeader(out, h.statusCode)
         ELSE ServeLoopIP(h, req, i + 1, out)
    ELSE ServeLoopIP(h, req, i + 1, out)

RECURSIVE RegexLoop(_, _, _, _)
\* the regex loop of the variants without the exemption
RegexLoop(h, req, i, out) ==
    IF i > Len(h.regexps) THEN CallNext(out, req)
    ELSE IF MatchString(h.regexps[i], FullUrl(req)) THEN WriteHeader(out, h.statusCode)
    ELSE RegexLoop(h, req, i + 1, out)

RECURSIVE ServeLoopSubstringEquality(_, _, _, _)
\* ServeLoopSubstring that tests the strings by equality
ServeLoopSubstringEquality(h, req, i, out) ==
    IF i > Len(h.matchStrings) THEN RegexLoop(h, req, 1, out)
    ELSE IF FullUrl(req) = h.matchStrings[i] THEN WriteHeader(out, h.statusCode)
    ELSE ServeLoopSubstringEquality(h, req, i + 1, out)

RECURSIVE ServeLoopSubstring(_, _, _, _)
\* ServeHTTP of the containment variant, from string index i on
ServeLoopSubstring(h, req, i, out) ==
    IF i > Len(h.matchStrings) THEN RegexLoop(h, req, 1, out)
    ELSE IF Contains(FullUrl(req), h.matchStrings[i]) THEN WriteHeader(out, h.statusCode)
    ELSE ServeLoopSubstring(h, req, i + 1, out)

\* ServeHTTP of the equality variant
ServeExact(h, req, out) ==
    IF SlicesContains(h.exactMatch, FullUrl(req)) THEN WriteHeader(out, h.statusCode)
    ELSE RegexLoop(h, req, 1, out)

(***************************************************************************)
(* The state machine: the host constructs one handler, then hands it       *)
(* requests; each request reaches the handler through proxies that fill    *)
(* its forwarding headers.                                                 *)
(***************************************************************************)
ConfigsIP ==
    [AllowLocalRequests : BOOLEAN, Regex : SeqUpTo(Patterns, MaxRegex),
     StatusCode : StatusCodes]

RuleLists ==
    {rs \in SeqUpTo(Patterns, MaxRegex) \X SeqUpTo(LiteralStrings, MaxStrings) :
        Len(rs[1]) + Len(rs[2]) <= MaxRegex}

ConfigsSubstring ==
    {[Regex |-> rs[1], MatchStrings |-> rs[2], StatusCode |-> c] :
        rs \in RuleLists, c \in StatusCodes}

ConfigsExact ==
    {[Regex |-> rs[1], ExactMatch |-> rs[2], StatusCode |-> c] :
        rs \in RuleLists, c \in StatusCodes}

Init ==
    /\ phase = "init"
    /\ variant = "none"
    /\ config = CreateConfig
    /\ handler = NoHandler
    /\ newError = FALSE
    /\ request = NoRequest
    /\ written = <<>>
    /\ nextCalls = <<>>
    /\ remembered = NoRequest
    /\ inflight = <<>>
    /\ input = NoRequest
    /\ output = NoResult

Constructed(v, cfg, r) ==
    /\ variant' = v
    /\ config' = cfg
    /\ handler' = r.handler
    /\ newError' = r.err
    /\ phase' = IF r.err THEN "failed" ELSE "ready"
    /\ UNCHANGED <<request, written, nextCalls>>
    /\ UNCHANGED sideVars

New ==
    /\ phase = "init"
    /\ \E cfg \in ConfigsIP : Constructed("ip", cfg, NewIP(cfg))

NewSubstringVariant ==
    /\ phase = "init"
    /\ \E cfg \in ConfigsSubstring : Constructed("substring", cfg, NewSubstring(cfg))

NewExactVariant ==
    /\ phase = "init"
    /\ \E cfg \in ConfigsExact : Constructed("exact", cfg, NewExact(cfg))

\* a request arrives at the proxy chain, with a fresh response
Arrive ==
    /\ phase \in {"ready", "served"}
    /\ \E host \in Hosts, uri \in Uris :
           request' = [Host |-> host, RequestURI |-> uri,
                       XForwardedFor |-> <<>>, XRealIP |-> <<>>]
    /\ phase' = "pending"
    /\ written' = <<>>
    /\ nextCalls' = <<>>
    /\ UNCHANGED <<variant, config, handler, newError>>
    /\ UNCHANGED sideVars

HeaderRoom ==
    /\ phase = "pending"
    /\ Len(request.XForwardedFor) + Len(request.XRealIP) < MaxHeader

\* a proxy extends X-Forwarded-For
ExtendForwardedFor ==
    /\ HeaderRoom
    /\ \E x \in HeaderLexemes :
           request' = [request EXCEPT !.XForwardedFor = Append(@, x)]
    /\ UNCHANGED <<phase, variant, config, handler, newError, written, nextCalls>>
    /\ UNCHANGED sideVars

\* a proxy extends X-Real-IP
ExtendRealIP ==
    /\ HeaderRoom
    /\ \E x \in HeaderLexemes :
           request' = [request EXCEPT !.XRealIP = Append(@, x)]
    /\ UNCHANGED <<phase, variant, config, handler, newError, written, nextCalls>>
    /\ UNCHANGED sideVars

\* Served by a handler that stops exempting once it has blocked a request
ServedLatchesBlock(out) ==
    /\ written' = out.written
    /\ nextCalls' = out.nextCalls
    /\ phase' = "served"
    /\ handler' = IF out.written # <<>> /\ variant = "ip"
                  THEN [handler EXCEPT !.allowLocalRequests = FALSE]
                  ELSE handler
    /\ UNCHANGED <<variant, config, newError, request>>
    /\ UNCHANGED sideVars

Served(out) ==
    /\ written' = out.written
    /\ nextCalls' = out.nextCalls
    /\ phase' = "served"
    /\ UNCHANGED <<variant, config, handler, newError, request>>
    /\ UNCHANGED sideVars

ServeHTTP ==
    /\ phase = "pending"
    /\ variant = "ip"
    /\ Served(ServeLoopIP(handler, request, 1, NoOutput))

ServeHTTPSubstring ==
    /\ phase = "pending"
    /\ variant = "substring"
    /\ Served(ServeLoopSubstring(handler, request, 1, NoOutput))

ServeHTTPExact ==
    /\ phase = "pending"
    /\ variant = "exact"
    /\ Served(ServeExact(handler, request, NoOutput))

Next ==
    \/ New
    \/ NewSubstringVariant
    \/ NewExactVariant
    \/ Arrive
    \/ ExtendForwardedFor
    \/ ExtendRealIP
    \/ ServeHTTP
    \/ ServeHTTPSubstring
    \/ ServeHTTPExact

Spec == Init /\ [][Next]_vars

(***************************************************************************)
(* One handler serving a sequence of whole requests, of which the host     *)
(* keeps one response to compare a later one with.                         *)
(***************************************************************************)
\* header values a request is delivered with
DeliveredForwardedFor == {<<>>, <<TextPrivate>>, <<TextPublic>>, <<WordUnknown>>}

DeliveredRequests ==
    [Host : Hosts, RequestURI : Uris, XForwardedFor : DeliveredForwardedFor,
     XRealIP : {<<>>}]

\* what the response recorder shows of the request just served
Outcome == IF written = <<>> THEN "forwarded" ELSE "blocked"

\* the next request is handed to the handler with a fresh response; the
\* host may keep the response of the request just served, once, and notes
\* the outcomes of the requests served after the one it kept
Deliver ==
    /\ phase \in {"ready", "served"}
    /\ \E req \in DeliveredRequests : request' = req
    /\ phase' = "pending"
    /\ written' = <<>>
    /\ nextCalls' = <<>>
    /\ \/ /\ phase = "served"
          /\ remembered = NoRequest
          /\ remembered' = [request |-> request, written |-> written,
                            nextCalls |-> nextCalls, since |-> {}]
       \/ /\ phase = "served"
          /\ remembered # NoRequest
          /\ remembered' = [remembered EXCEPT !.since = @ \cup {Outcome}]
       \/ /\ remembered = NoRequest
          /\ UNCHANGED remembered
    /\ UNCHANGED <<variant, config, handler, newError, inflight, input, output>>

NextRepeat ==
    \/ New
    \/ Deliver
    \/ ServeHTTP

SpecRepeat == Init /\ [][NextRepeat]_vars

(***************************************************************************)
(* One handler called by several goroutines of the host at the same time.  *)
(* Each call of ServeHTTP advances by steps: the test of one regex, the    *)
(* call of CollectRemoteIP, the decision at a matching regex.  The         *)
(* request, the response, the loop index and the collected addresses are   *)
(* local to the call; the handler is shared.                               *)
(***************************************************************************)
Goroutines == {1, 2}

ConcurrentRequests ==
    [Host : Hosts, RequestURI : Uris,
     XForwardedFor : {<<TextPrivate>>, <<TextPublic>>}, XRealIP : {<<>>}]

IdleGoroutine ==
    [pc |-> "idle", request |-> NoRequest, i |-> 1, ipAddresses |-> <<>>,
     written |-> <<>>, nextCalls |-> <<>>, overlapped |-> FALSE]

InFlight(g) == inflight[g].pc \in {"loop", "collect", "decide"}

InitConcurrent ==
    /\ phase = "init"
    /\ variant = "none"
    /\ config = CreateConfig
    /\ handler = NoHandler
    /\ newError = FALSE
    /\ request = NoRequest
    /\ written = <<>>
    /\ nextCalls = <<>>
    /\ remembered = NoRequest
    /\ inflight = [g \in Goroutines |-> IdleGoroutine]
    /\ input = NoRequest
    /\ output = NoResult

\* the host calls ServeHTTP on goroutine g
Accept(g) ==
    /\ phase = "ready"
    /\ ~InFlight(g)
    /\ \E req \in ConcurrentRequests :
           inflight' = [inflight EXCEPT ![g] =
               [pc |-> "loop", request |-> req, i |-> 1, ipAddresses |-> <<>>,
                written |-> <<>>, nextCalls |-> <<>>,
                overlapped |-> \E h \in Goroutines \ {g} : InFlight(h)]]
    /\ UNCHANGED <<hostVars, remembered, input, output>>

\* the head of the loop over blockUrls.regexps and the test of one regex
LoopStep(g) ==
    /\ inflight[g].pc = "loop"
    /\ LET c == inflight[g] IN
       inflight' = [inflight EXCEPT ![g] =
           IF c.i > Len(handler.regexps)
           THEN [c EXCEPT !.pc = "done", !.nextCalls = Append(@, c.request)]
           ELSE IF MatchString(handler.regexps[c.i], FullUrl(c.request))
           THEN [c EXCEPT !.pc = "collect"]
           ELSE [c EXCEPT !.i = @ + 1]]
    /\ UNCHANGED <<hostVars, remembered, input, output>>

\* CollectStep with one list of addresses for all the calls in progress
CollectStepShared(g) ==
    /\ inflight[g].pc = "collect"
    /\ inflight' = [h \in Goroutines |->
           IF h = g
           THEN [inflight[h] EXCEPT !.pc = "decide",
                     !.ipAddresses = CollectRemoteIP(inflight[g].request).ipList]
           ELSE [inflight[h] EXCEPT
                     !.ipAddresses = CollectRemoteIP(inflight[g].request).ipList]]
    /\ UNCHANGED <<hostVars, remembered, input, output>>

\* ipAddresses, err := blockUrls.CollectRemoteIP(request)
CollectStep(g) ==
    /\ inflight[g].pc = "collect"
    /\ inflight' = [inflight EXCEPT ![g] =
           [@ EXCEPT !.pc = "decide",
                     !.ipAddresses = CollectRemoteIP(inflight[g].request).ipList]]
    /\ UNCHANGED <<hostVars, remembered, input, output>>

\* the decision at a matching regex: block and return, or go on
DecideStep(g) ==
    /\ inflight[g].pc = "decide"
    /\ LET c == inflight[g] IN
       inflight' = [inflight EXCEPT ![g] =
           IF ~handler.allowLocalRequests
           THEN [c EXCEPT !.pc = "done", !.written = Append(@, handler.statusCode)]
           ELSE IF ~AllPrivateLoop(c.ipAddresses, 1, handler.privateIPRanges, TRUE)
           THEN [c EXCEPT !.pc = "done", !.written = Append(@, handler.statusCode)]
           ELSE [c EXCEPT !.pc = "loop", !.i = @ + 1]]
    /\ UNCHANGED <<hostVars, remembered, input, output>>

NextConcurrent ==
    \/ New
    \/ \E g \in Goroutines : Accept(g)
    \/ \E g \in Goroutines : LoopStep(g)
    \/ \E g \in Goroutines : CollectStep(g)
    \/ \E g \in Goroutines : DecideStep(g)

SpecConcurrent == InitConcurrent /\ [][NextConcurrent]_vars

(***************************************************************************)
(* IsPrivateIP called on its own, on addresses at and around the edges of  *)
(* the blocks.                                                             *)
(***************************************************************************)
ClassifiedV4 ==
    {V4Text(a, b, c, d) :
        a \in {2, 9, 10, 11, 126, 127, 128, 169, 172, 192, 224},
        b \in {0, 15, 16, 31, 32, 167, 168, 169, 253, 254, 255},
        c \in {0, 255},
        d \in {0, 255}}

ClassifiedV6 ==
    {V6Text(<<g, 0, 0, 0, 0, 0, 0, z>>) :
        g \in {0, 8193, 64511, 64512, 65023, 65024, 65151, 65152, 65215, 65216,
               65281, 65282, 65298},
        z \in {0, 1, 2}}

\* ::ffff:10.0.0.1 and ::ffff:2.56.20.0, IPv4 addresses in IPv6 text
ClassifiedMapped ==
    {V6Text(<<0, 0, 0, 0, 0, 65535, 2560, 1>>), V6Text(<<0, 0, 0, 0, 0, 65535, 568, 5120>>)}

ClassifiedTexts == ClassifiedV4 \cup ClassifiedV6 \cup ClassifiedMapped

InitClassify ==
    /\ phase = "init"
    /\ variant = "none"
    /\ config = CreateConfig
    /\ handler = NoHandler
    /\ newError = FALSE
    /\ request = NoRequest
    /\ written = <<>>
    /\ nextCalls = <<>>
    /\ remembered = NoRequest
    /\ inflight = <<>>
    /\ input \in ClassifiedTexts
    /\ output = NoResult

\* IsPrivateIP(ip, InitializePrivateIPBlocks()) on the parsed address
Classify ==
    /\ ~output.done
    /\ output' = [done |-> TRUE,
                  value |-> IsPrivateIP(ParseIP(<<input>>).ip, InitializePrivateIPBlocks)]
    /\ UNCHANGED <<hostVars, remembered, inflight, input>>

NextClassify == Classify

SpecClassify == InitClassify /\ [][NextClassify]_vars

(***************************************************************************)
(* The same request served by two handlers whose configurations differ     *)
(* only in the order of the regex list.                                    *)
(***************************************************************************)
\* the lists with the elements of regex in another (or the same) order
Reorderings(regex) ==
    LET n == Len(regex) IN
    {[i \in 1..n |-> regex[p[i]]] :
        p \in {q \in [1..n -> 1..n] : \A i, j \in 1..n : q[i] = q[j] => i = j}}

OrderInputs ==
    {[config |-> cfg, reordered |-> [cfg EXCEPT !.Regex = regex], request |-> req] :
        cfg \in ConfigsIP, regex \in SeqUpTo(Patterns, MaxRegex), req \in DeliveredRequests}

InitOrder ==
    /\ phase = "init"
    /\ variant = "none"
    /\ config = CreateConfig
    /\ handler = NoHandler
    /\ newError = FALSE
    /\ request = NoRequest
    /\ written = <<>>
    /\ nextCalls = <<>>
    /\ remembered = NoRequest
    /\ inflight = <<>>
    /\ input \in {i \in OrderInputs : i.reordered.Regex \in Reorderings(i.config.Regex)}
    /\ output = NoResult

\* New(cfg) and, when it gives a handler, its ServeHTTP on a fresh response
NewThenServeHTTP(cfg, req) ==
    LET r == NewIP(cfg) IN
    IF r.err THEN [err |-> TRUE, response |-> NoOutput]
    ELSE [err |-> FALSE, response |-> ServeLoopIP(r.handler, req, 1, NoOutput)]

ServeBothOrders ==
    /\ ~output.done
    /\ output' = [done |-> TRUE,
                  listed |-> NewThenServeHTTP(input.config, input.request),
                  reordered |-> NewThenServeHTTP(input.reordered, input.request)]
    /\ UNCHANGED <<hostVars, remembered, inflight, input>>

NextOrder == ServeBothOrders

SpecOrder == InitOrder /\ [][NextOrder]_vars

(***************************************************************************)
(* CollectRemoteIP called on its own, on header values written with and    *)
(* without a space after the comma.                                        *)
(***************************************************************************)
CollectLexemes == HeaderLexemes \cup {Blank}

\* values of X-Real-IP: absent, one address, a word, a list
CollectRealIP ==
    {<<>>, <<TextPublic>>, <<WordUnknown>>, <<TextPrivate, Comma, TextPublic>>}

CollectRequests ==
    [Host : {HostLocalhost}, RequestURI : {UriWpLogin},
     XForwardedFor : SeqUpTo(CollectLexemes, MaxCollect), XRealIP : CollectRealIP]

InitCollect ==
    /\ phase = "init"
    /\ variant = "none"
    /\ config = CreateConfig
    /\ handler = NoHandler
    /\ newError = FALSE
    /\ request = NoRequest
    /\ written = <<>>
    /\ nextCalls = <<>>
    /\ remembered = NoRequest
    /\ inflight = <<>>
    /\ input \in CollectRequests
    /\ output = NoResult

Collect ==
    /\ ~output.done
    /\ output' = [done |-> TRUE, value |-> CollectRemoteIP(input)]
    /\ UNCHANGED <<hostVars, remembered, inflight, input>>

NextCollect == Collect

SpecCollect == InitCollect /\ [][NextCollect]_vars

(***************************************************************************)
(* Vocabulary of the properties.                                           *)
(***************************************************************************)
IsServed == phase = "served"

\* the status code was written once and the next handler was not invoked
Blocked == written = <<config.StatusCode>> /\ nextCalls = <<>>

\* the next handler was invoked once, with the request, and no status written
Forwarded == written = <<>> /\ nextCalls = <<request>>

ComposedUrl == request.Host \o request.RequestURI

\* the regexes of the handler that match the request's composed URL
MatchingRegexes == {i \in 1..Len(handler.regexps) : MatchString(handler.regexps[i], ComposedUrl)}

\* some rule of the handler, of whichever kind its variant has, matches
SomeRuleMatches ==
    \/ MatchingRegexes # {}
    \/ /\ variant = "substring"
       /\ \E i \in 1..Len(handler.matchStrings) : Contains(ComposedUrl, handler.matchStrings[i])
    \/ /\ variant = "exact"
       /\ \E i \in 1..Len(handler.exactMatch) : handler.exactMatch[i] = ComposedUrl

\* the exemption variant with allowLocalRequests as given, on a matching URL
MatchedWithExemption(allow) ==
    /\ IsServed
    /\ variant = "ip"
    /\ handler.allowLocalRequests = allow
    /\ MatchingRegexes # {}

\* the comma-separated tokens of both forwarding headers, in header order
HeaderTokens ==
    FieldsFunc(request.XForwardedFor, 1, <<>>) \o FieldsFunc(request.XRealIP, 1, <<>>)

\* the token is the text of one well-formed address
IsAddressText(token) ==
    /\ Len(token) = 1
    /\ \/ /\ token[1].kind = "v4"
          /\ \A i \in 1..4 : token[1].parts[i] \in 0..255
       \/ /\ token[1].kind = "v6"
          /\ \A i \in 1..8 : token[1].parts[i] \in 0..65535

\* the dotted quad names a loopback, link-local or private address
IsPrivateTextV4(q) ==
    \/ q[1] \in {10, 127}
    \/ q[1] = 172 /\ q[2] \in 16..31
    \/ q[1] = 192 /\ q[2] = 168
    \/ q[1] = 169 /\ q[2] = 254
    \/ q[1] = 224 /\ q[2] = 0 /\ q[3] = 0

\* the address text names a loopback, link-local or private address
IsPrivateText(token) ==
    /\ IsAddressText(token)
    /\ LET q == token[1].parts IN
       IF token[1].kind = "v4"
       THEN IsPrivateTextV4(q)
       ELSE \/ q = <<0, 0, 0, 0, 0, 0, 0, 1>>
            \/ q[1] \in 65152..65215
            \/ q[1] \in 64512..65023
            \/ q[1] \in 65280..65535 /\ q[1] % 16 = 2
            \/ /\ \A i \in 1..5 : q[i] = 0
               /\ q[6] = 65535
               /\ IsPrivateTextV4(<<q[7] \div 256, q[7] % 256, q[8] \div 256, q[8] % 256>>)

IsPublicText(token) == IsAddressText(token) /\ ~IsPrivateText(token)

AllTokensPrivate == \A k \in 1..Len(HeaderTokens) : IsPrivateText(HeaderTokens[k])

SomeTokenPublic == \E k \in 1..Len(HeaderTokens) : IsPublicText(HeaderTokens[k])

SomeTokenUnparseable == \E k \in 1..Len(HeaderTokens) : ~IsAddressText(HeaderTokens[k])

\* neither header holds anything but separators
NoForwardedAddress ==
    /\ \A k \in 1..Len(request.XForwardedFor) : request.XForwardedFor[k] = Comma
    /\ \A k \in 1..Len(request.XRealIP) : request.XRealIP[k] = Comma

(***************************************************************************)
(* Properties.                                                             *)
(***************************************************************************)
\* C1: one call of ServeHTTP ends either with the configured status code
\* written once and the next handler not invoked, or with the next handler
\* invoked exactly once and no status code written; before the call
\* nothing is written and nothing invoked.
C1_ExactlyOneOutcome ==
    /\ IsServed =>
           \/ written = <<config.StatusCode>> /\ nextCalls = <<>>
           \/ written = <<>> /\ Len(nextCalls) = 1
    /\ ~IsServed => written = <<>> /\ nextCalls = <<>>

\* two regexes match the request and the exemption applies at each of them
C1_Witness ==
    /\ MatchedWithExemption(TRUE)
    /\ Cardinality(MatchingRegexes) >= 2
    /\ HeaderTokens # <<>>
    /\ AllTokensPrivate
    /\ Forwarded

C3_MatchBlocksWithoutExemption == MatchedWithExemption(FALSE) => Blocked

\* a matching request from a private address is blocked
C3_Witness ==
    /\ MatchedWithExemption(FALSE)
    /\ request.XRealIP = <<TextPrivate>>
    /\ request.XForwardedFor = <<>>
    /\ Blocked

\* C4: with allowLocalRequests true, a request whose composed URL matches a
\* regex and whose header tokens are all private, loopback or link-local
\* addresses is forwarded.
C4_AllPrivateForwards == (MatchedWithExemption(TRUE) /\ AllTokensPrivate) => Forwarded

\* a matching request carrying one private address is forwarded
C4_Witness ==
    /\ MatchedWithExemption(TRUE)
    /\ request.XRealIP = <<TextPrivate>>
    /\ request.XForwardedFor = <<>>
    /\ Forwarded

\* C5: with allowLocalRequests true, a request whose composed URL matches a
\* regex and that carries a public address in some token of
\* X-Forwarded-For or X-Real-IP is blocked with the configured status code,
\* whatever the other tokens are.
C5_AnyPublicBlocks == (MatchedWithExemption(TRUE) /\ SomeTokenPublic) => Blocked

\* C6: with allowLocalRequests true, a request whose composed URL matches a
\* regex and one of whose header tokens does not parse as an address is
\* blocked with the configured status code.
C6_ParseFailureBlocks == (MatchedWithExemption(TRUE) /\ SomeTokenUnparseable) => Blocked

\* C7: with the single rule ^/wp(.*) and status code 404, the request for
\* /wp-login on host localhost with X-Forwarded-For 2.56.20.0 is answered
\* 404 and the next handler is not invoked.
C7_WpPathRuleBlocks ==
    ( /\ IsServed
      /\ variant = "ip"
      /\ config.Regex = <<PatWpPath>>
      /\ config.StatusCode = 404
      /\ request = [Host |-> HostLocalhost, RequestURI |-> UriWpLogin,
                    XForwardedFor |-> <<TextPublic>>, XRealIP |-> <<>>] )
    => (written = <<404>> /\ nextCalls = <<>>)

\* the configured regex list holds a pattern that does not compile
HasBrokenPattern == \E i \in 1..Len(config.Regex) : config.Regex[i] = PatBroken

\* C8: New with a regex list holding, at any position, a pattern that does
\* not compile returns an error and the nil handler, and no request is ever
\* served; a handler that is returned holds every configured regex.
C8_InvalidRegexFailsConstruction ==
    /\ HasBrokenPattern =>
           /\ handler = NoHandler
           /\ newError
           /\ phase = "failed"
           /\ request = NoRequest
           /\ written = <<>> /\ nextCalls = <<>>
    /\ handler # NoHandler => Len(handler.regexps) = Len(config.Regex)

\* construction failed on a pattern that follows a valid one
C8_Witness ==
    /\ phase = "failed"
    /\ Len(config.Regex) = 2
    /\ config.Regex[1] \in ValidPatterns
    /\ config.Regex[2] = PatBroken

\* no regex and no literal string is configured
EmptyRuleSet ==
    /\ phase # "init"
    /\ Len(config.Regex) = 0
    /\ variant = "substring" => Len(config.MatchStrings) = 0
    /\ variant = "exact" => Len(config.ExactMatch) = 0

\* C9, as stated: with an empty rule set construction yields a handler, and
\* that handler forwards every request.
C9_EmptyRuleSetForwards ==
    EmptyRuleSet =>
        /\ handler # NoHandler
        /\ ~newError
        /\ IsServed => Forwarded

\* C9, amended: in the variants with literal strings an empty rule set
\* yields a handler that forwards every request; in the variant with the
\* private-address exemption New returns an error and the nil handler for
\* an empty regex list.
C9_EmptyRuleSetByVariant ==
    EmptyRuleSet =>
        IF variant = "ip"
        THEN handler = NoHandler /\ newError /\ phase = "failed"
        ELSE /\ handler # NoHandler
             /\ ~newError
             /\ IsServed => Forwarded

\* a handler built from an empty rule set has forwarded a request
C9_Witness ==
    /\ EmptyRuleSet
    /\ variant = "substring"
    /\ IsServed
    /\ Forwarded

\* C10: with allowLocalRequests true, a request whose composed URL matches
\* a regex and from which no forwarded address is extracted is forwarded.
C10_NoAddressForwards == (MatchedWithExemption(TRUE) /\ NoForwardedAddress) => Forwarded

\* a matching request without forwarding headers is forwarded
C10_Witness ==
    /\ MatchedWithExemption(TRUE)
    /\ request.XForwardedFor = <<>>
    /\ request.XRealIP = <<>>
    /\ Forwarded

\* C11: the decision for a request depends on the request and the
\* configuration alone: a request served again by the same handler, after
\* whatever requests it served in between, gets the decision it got before.
C11_SameRequestSameDecision ==
    (IsServed /\ remembered # NoRequest /\ remembered.request = request) =>
        /\ written = remembered.written
        /\ nextCalls = remembered.nextCalls

\* a request is served again after a blocked and a forwarded request
C11_Witness ==
    /\ IsServed
    /\ remembered # NoRequest
    /\ remembered.request = request
    /\ remembered.since = {"blocked", "forwarded"}
    /\ handler.allowLocalRequests
    /\ Forwarded

\* the literal strings the handler was configured with
ConfiguredStrings ==
    IF variant = "substring" THEN config.MatchStrings
    ELSE IF variant = "exact" THEN config.ExactMatch
    ELSE <<>>

\* a configured literal string occurs somewhere in the composed URL
SomeStringContained ==
    \E i \in 1..Len(ConfiguredStrings) : Contains(ComposedUrl, ConfiguredStrings[i])

\* a configured literal string is the composed URL
SomeStringEqual == \E i \in 1..Len(ConfiguredStrings) : ConfiguredStrings[i] = ComposedUrl

\* C12, as stated: in a variant with literal strings, a request whose
\* composed URL contains a configured string as a substring is blocked with
\* the configured status code, whatever the regexes are.
C12_ContainedStringBlocks == (IsServed /\ SomeStringContained) => Blocked

\* C12, amended: in the variant with matchStrings a request whose composed
\* URL contains a configured string is blocked, whatever the regexes are;
\* in the variant with exactMatch a request whose composed URL equals a
\* configured string is blocked, whatever the regexes are.
C12_StringBlocksByVariant ==
    /\ (IsServed /\ variant = "substring" /\ SomeStringContained) => Blocked
    /\ (IsServed /\ variant = "exact" /\ SomeStringEqual) => Blocked

\* a string inside the composed URL blocks a request none of the
\* configured regexes matches
C12_Witness ==
    /\ IsServed
    /\ variant = "substring"
    /\ SomeStringContained
    /\ ~SomeStringEqual
    /\ Len(config.Regex) > 0
    /\ MatchingRegexes = {}
    /\ Blocked

\* the decision the call on goroutine g has reached
DecisionOf(g) == [written |-> inflight[g].written, nextCalls |-> inflight[g].nextCalls]

\* the decision the request of goroutine g gets when it is handled alone
DecisionAlone(g) == ServeLoopIP(NewIP(config).handler, inflight[g].request, 1, NoOutput)

\* C13: ServeHTTP is safe under concurrent calls on one handler: while calls
\* are in progress the handler stays what New built from the configuration,
\* and under every interleaving each call ends with the decision its
\* request gets when handled alone.
C13_ConcurrentCallsIndependent ==
    /\ phase = "ready" => handler = NewIP(config).handler
    /\ \A g \in Goroutines :
           inflight[g].pc = "done" => DecisionOf(g) = DecisionAlone(g)

\* two calls that overlapped ended with different decisions
C13_Witness ==
    /\ \A g \in Goroutines : inflight[g].pc = "done"
    /\ inflight[2].overlapped
    /\ inflight[1].request.RequestURI = inflight[2].request.RequestURI
    /\ inflight[1].written # <<>>
    /\ inflight[2].written = <<>>
    /\ inflight[2].nextCalls = <<inflight[2].request>>

\* C14: IsPrivateIP with the blocks of InitializePrivateIPBlocks is true
\* exactly for the loopback, link-local unicast and link-local multicast
\* addresses and the addresses inside the eight CIDR blocks; the edges of
\* 172.16.0.0/12 are exact.
C14_PrivateExactlyReserved ==
    output.done =>
        /\ output.value = IsPrivateText(<<input>>)
        /\ input \in {V4Text(172, 15, 255, 255), V4Text(172, 32, 0, 0)} => ~output.value
        /\ input \in {V4Text(172, 16, 0, 0), V4Text(172, 31, 255, 255)} => output.value

\* the last address of 172.16.0.0/12 is found private
C14_Witness ==
    /\ output.done
    /\ input = V4Text(172, 31, 255, 255)
    /\ output.value

\* C15: for every request and every permutation of the regex list the
\* handler reaches the same decision, which is either the configured
\* status without the next handler or the next handler without a status.
C15_OrderDoesNotDecide ==
    output.done =>
        /\ output.listed = output.reordered
        /\ ~output.listed.err =>
              \/ output.listed.response =
                     [written |-> <<input.config.StatusCode>>, nextCalls |-> <<>>]
              \/ output.listed.response =
                     [written |-> <<>>, nextCalls |-> <<input.request>>]

\* a list of a rule that does not match and one that does, served in both
\* orders and blocked
C15_Witness ==
    /\ output.done
    /\ input.config.Regex = <<PatWpPath, PatWp>>
    /\ input.reordered.Regex = <<PatWp, PatWpPath>>
    /\ input.request.RequestURI = UriWpLogin
    /\ ~output.listed.err
    /\ output.listed.response.written = <<input.config.StatusCode>>

\* the positions of a header value where a token starts: not a comma, and
\* first or right after a comma
TokenStarts(value) ==
    {i \in 1..Len(value) : value[i] # Comma /\ (i = 1 \/ value[i - 1] = Comma)}

\* the token that starts at position i: up to the next comma or the end
TokenAt(value, i) ==
    LET last == CHOOSE j \in i..Len(value) :
                    /\ \A k \in i..j : value[k] # Comma
                    /\ j = Len(value) \/ value[j + 1] = Comma
    IN SubSeq(value, i, last)

\* the tokens of a header value from left to right
TokensOf(value) ==
    LET starts == TokenStarts(value) IN
    [n \in 1..Cardinality(starts) |->
        TokenAt(value, CHOOSE i \in starts : Cardinality({j \in starts : j <= i}) = n)]

\* the bytes that the text of an address stands for
AddressOf(token) ==
    IF token[1].kind = "v4"
    THEN <<0, 0, 0, 0, 0, 0, 0, 0, 0, 0, 255, 255>> \o token[1].parts
    ELSE [b \in 1..16 |-> IF b % 2 = 1 THEN token[1].parts[(b + 1) \div 2] \div 256
                          ELSE token[1].parts[b \div 2] % 256]

\* C16: a header value in the form "a, b", a comma and a space between
\* two valid addresses, yields both addresses and no parse error.
C16_CommaSpaceListParsed ==
    output.done =>
        \A a, b \in {TextPrivate, TextPublic} :
            /\ input.XForwardedFor = <<a, Comma, Blank, b>>
            /\ input.XRealIP = <<>>
            => output.value = [ipList |-> <<AddressOf(<<a>>), AddressOf(<<b>>)>>, err |-> FALSE]

\* C17: the result of CollectRemoteIP is the addresses of the tokens of
\* X-Forwarded-For and then X-Real-IP that come before the first token that
\* is no address, with an error exactly when there is such a token.
C17_StopsAtFirstFailure ==
    output.done =>
        LET tokens == TokensOf(input.XForwardedFor) \o TokensOf(input.XRealIP)
            bad == {n \in 1..Len(tokens) : ~IsAddressText(tokens[n])}
            parsed == IF bad = {} THEN Len(tokens)
                      ELSE (CHOOSE n \in bad : \A m \in bad : n <= m) - 1
        IN /\ output.value.err = (bad # {})
           /\ output.value.ipList = [n \in 1..parsed |-> AddressOf(tokens[n])]

\* a failure at the second token of X-Forwarded-For, with an address after
\* it and one in X-Real-IP: the error and the first address only
C17_Witness ==
    /\ output.done
    /\ input.XForwardedFor = <<TextPrivate, Comma, WordUnknown, Comma>>
    /\ input.XRealIP = <<TextPublic>>
    /\ output.value = [ipList |-> <<AddressOf(<<TextPrivate>>)>>, err |-> TRUE]
====
